---- MODULE Spec2Model ----
(***************************************************************************)
(* A model of the translation backend (backend/app): the request models of *)
(* models.py, the endpoints of main.py and the services of services.py.    *)
(*                                                                         *)
(* One behaviour is the life of one HTTP request: it is received, checked  *)
(* at the boundary by its request model, handled by its endpoint, and      *)
(* answered.  A step of the model is the code that runs between two        *)
(* suspension points (an upstream call, a backoff sleep).                  *)
(*                                                                         *)
(* A Python str is a sequence of tokens (TLA+ strings): a token is one     *)
(* character or an indivisible run of characters.  Optional[T] is a set    *)
(* with no element (None) or one element.                                  *)
(***************************************************************************)
EXTENDS Integers, Sequences, FiniteSets, TLC

\* ------------------------------------------------------------------ bounds
\* The longest cue list a request carries.
MaxCues == 3
\* The largest batch_size tried below the upper limit of the request model.
MaxBatchSize == 2

\* ------------------------------------------------------- program constants
MAX_RETRIES == 3
BATCH_SIZE_GE == 1
BATCH_SIZE_LE == 100
BATCH_SIZE_DEFAULT == 25
CUES_MIN_LENGTH == 1
TEXT_MIN_LENGTH == 1
TEXT_MAX_LENGTH == 5000
CONFIDENCE_GE == 0
CONFIDENCE_LE == 1
BACKOFF_BASE == 2
HTTP_OK == 200

\* ----------------------------------------------------------------- values
None == {}
Some(v) == {v}
IsNone(o) == o = {}
The(o) == CHOOSE v \in o : TRUE

\* The whitespace characters str.strip() and the regex class \s remove.
Whitespace == {" ", "\n"}

RECURSIVE lstrip(_)
lstrip(s) ==
    IF s # <<>> /\ Head(s) \in Whitespace THEN lstrip(Tail(s)) ELSE s

RECURSIVE rstrip(_)
rstrip(s) ==
    IF s # <<>> /\ s[Len(s)] \in Whitespace
    THEN rstrip(SubSeq(s, 1, Len(s) - 1))
    ELSE s

\* str.strip()
strip(s) == rstrip(lstrip(s))

\* `marker in message`
Contains(message, marker) == \E i \in DOMAIN message : message[i] = marker

\* ------------------------------------------------------- response parsing
\* The text of an upstream response is a sequence of these tokens.  JSONDOC
\* stands for one complete JSON document, whose decoded value travels beside
\* the text; PROSE and the other words are text that is no JSON.
FENCE == "<fence>"
JSONDOC == "<json>"

\* re.sub(r"^FENCE(?:json)?\s*\n?", "", cleaned), FENCE the three backticks
StripOpeningFence(s) ==
    IF s # <<>> /\ Head(s) = FENCE
    THEN LET afterFence == Tail(s)
             afterTag == IF afterFence # <<>> /\ Head(afterFence) = "json"
                         THEN Tail(afterFence)
                         ELSE afterFence
         IN  lstrip(afterTag)
    ELSE s

\* (A variant that leaves a closing fence where it is.)
KeepClosingFence(s) == s

\* re.sub(r"\n?FENCE\s*$", "", cleaned)
StripClosingFence(s) ==
    LET body == rstrip(s)
    IN  IF body # <<>> /\ body[Len(body)] = FENCE
        THEN LET cut == SubSeq(body, 1, Len(body) - 1)
             IN  IF cut # <<>> /\ cut[Len(cut)] = "\n"
                 THEN SubSeq(cut, 1, Len(cut) - 1)
                 ELSE cut
        ELSE s

\* The four cleaning lines every _parse_response starts with.
CleanResponse(text) == strip(StripClosingFence(StripOpeningFence(strip(text))))

\* json.loads(cleaned): the text decodes when it is one JSON document.
JsonLoadsOk(cleaned) == cleaned = <<JSONDOC>>

JSONDecodeError == <<"Expecting value: line 1 column 1 (char 0)">>
NotAnArrayError == <<"Response is not a JSON array">>

\* (A variant that takes a value that is no array for an empty list.)
parse_response_lenient(text, value) ==
    IF ~JsonLoadsOk(CleanResponse(text))
    THEN [ok |-> FALSE, list |-> <<>>, error |-> JSONDecodeError]
    ELSE [ok |-> TRUE, list |-> value.items, error |-> <<>>]

\* SubtitleTranslationService._parse_response: the parsed list, or the error.
parse_response(text, value) ==
    IF ~JsonLoadsOk(CleanResponse(text))
    THEN [ok |-> FALSE, list |-> <<>>, error |-> JSONDecodeError]
    ELSE IF value.kind # "array"
         THEN [ok |-> FALSE, list |-> <<>>, error |-> NotAnArrayError]
         ELSE [ok |-> TRUE, list |-> value.items, error |-> <<>>]

\* ---------------------------------------------------- the Gemini upstream
\* What model.generate_content(prompt) followed by response.text can do: raise,
\* or hand back a text.  The messages of the errors it raises:
TransportErrors ==
    { <<"503 The service is currently unavailable">>,
      <<"400 ", "API key", " not valid">>,
      <<"429 Resource exhausted, check ", "quota">> }

\* The shapes of text an upstream hands back around a JSON document.
ResponseTexts ==
    { <<JSONDOC>>,
      <<FENCE, "json", "\n", JSONDOC, "\n", FENCE>>,
      <<FENCE, "\n", JSONDOC, "\n", FENCE>>,
      <<" ", FENCE, "json", JSONDOC, FENCE, "\n">>,
      <<"Here is the translation:", "\n", JSONDOC>>,
      <<FENCE, "python", "\n", JSONDOC, "\n", FENCE>>,
      <<FENCE, "json", "\n", FENCE, "\n", JSONDOC, "\n", FENCE, "\n", FENCE>>,
      <<"I cannot translate this.">>,
      <<>> }

\* The translated strings an upstream puts in its arrays.
Translations == { <<"x">>, <<"y">> }

SeqsUpTo(S, n) == UNION { [1..k -> S] : k \in 0..n }

\* The JSON values a batch response decodes to: arrays of strings of every
\* length up to one more than the batch, and values that are no array.
BatchValues(n) ==
    { [kind |-> "array", items |-> a] : a \in SeqsUpTo(Translations, n + 1) }
        \cup { [kind |-> k, items |-> <<>>] : k \in {"object", "string", "number", "null"} }

NullValue == [kind |-> "null", items |-> <<>>]

\* One upstream call on a batch of n cues ends in one of these.
\* (The value beside a text that does not decode is never read: null.)
GeminiBatchOutcomes(n) ==
    { [raised |-> Some(e), text |-> <<>>, value |-> NullValue] : e \in TransportErrors }
        \cup { [raised |-> None, text |-> t, value |-> v] :
                 t \in { u \in ResponseTexts : JsonLoadsOk(CleanResponse(u)) },
                 v \in BatchValues(n) }
        \cup { [raised |-> None, text |-> t, value |-> NullValue] :
                 t \in { u \in ResponseTexts : ~JsonLoadsOk(CleanResponse(u)) } }

\* The outcomes of a call on a batch, by the length of the batch.
BatchOutcomesByLength == [ n \in 1..MaxCues |-> GeminiBatchOutcomes(n) ]

\* ------------------------------------------------- SubtitleTranslationService
Min(a, b) == IF a < b THEN a ELSE b

\* range(0, len(cues), batch_size)
BatchStarts(n, batch_size) == { i \in 0..(n - 1) : i % batch_size = 0 }

\* (A variant that cuts whole batches only and drops a shorter last one.)
BatchesWholeOnly(cues, batch_size) ==
    [ k \in 1..(Len(cues) \div batch_size) |->
        SubSeq(cues, (k - 1) * batch_size + 1, k * batch_size) ]

\* [cues[i : i + batch_size] for i in range(0, len(cues), batch_size)]
Batches(cues, batch_size) ==
    LET n == Len(cues)
        starts == BatchStarts(n, batch_size)
        start(k) == CHOOSE i \in starts : Cardinality({ j \in starts : j < i }) = k - 1
    IN  [ k \in 1..Cardinality(starts) |->
            SubSeq(cues, start(k) + 1, Min(start(k) + batch_size, n)) ]

\* (A variant that keeps the entries of the parsed list past the batch.)
BuildTranslatedCuesKeepExtra(cues, translated_texts) ==
    [ idx \in 1..(IF Len(cues) < Len(translated_texts)
                  THEN Len(translated_texts) ELSE Len(cues)) |->
        IF idx <= Len(cues)
        THEN [ id |-> cues[idx].id,
               text |-> cues[idx].text,
               translated_text |-> IF idx <= Len(translated_texts)
                                   THEN translated_texts[idx]
                                   ELSE cues[idx].text ]
        ELSE [ id |-> "", text |-> <<>>, translated_text |-> translated_texts[idx] ] ]

\* (A variant that pairs the cues with the parsed list and stops at the shorter.)
BuildTranslatedCuesZip(cues, translated_texts) ==
    [ idx \in 1..Min(Len(cues), Len(translated_texts)) |->
        [ id |-> cues[idx].id,
          text |-> cues[idx].text,
          translated_text |-> translated_texts[idx] ] ]

\* The loop at the end of _translate_batch: one TranslatedCue per cue of the
\* batch, with the original text where the parsed list has no entry.
BuildTranslatedCues(cues, translated_texts) ==
    [ idx \in 1..Len(cues) |->
        [ id |-> cues[idx].id,
          text |-> cues[idx].text,
          translated_text |-> IF idx <= Len(translated_texts)
                              THEN translated_texts[idx]
                              ELSE cues[idx].text ] ]

\* (A variant that refuses a parsed list shorter than the batch.)
translate_batch_strict(cues, outcome) ==
    IF ~IsNone(outcome.raised)
    THEN [ok |-> FALSE, result |-> <<>>, error |-> The(outcome.raised)]
    ELSE LET parsed == parse_response(outcome.text, outcome.value)
         IN  IF parsed.ok /\ Len(parsed.list) >= Len(cues)
             THEN [ok |-> TRUE, result |-> BuildTranslatedCues(cues, parsed.list), error |-> <<>>]
             ELSE IF parsed.ok
                  THEN [ok |-> FALSE, result |-> <<>>, error |-> <<"Translation count mismatch">>]
                  ELSE [ok |-> FALSE, result |-> <<>>, error |-> parsed.error]

\* _translate_batch on one upstream outcome: the list it returns, or the
\* error it raises.
translate_batch(cues, outcome) ==
    IF ~IsNone(outcome.raised)
    THEN [ok |-> FALSE, result |-> <<>>, error |-> The(outcome.raised)]
    ELSE LET parsed == parse_response(outcome.text, outcome.value)
         IN  IF parsed.ok
             THEN [ok |-> TRUE, result |-> BuildTranslatedCues(cues, parsed.list), error |-> <<>>]
             ELSE [ok |-> FALSE, result |-> <<>>, error |-> parsed.error]

\* (A variant that knows the auth marker only.)
NonRetryableAuthOnly(message) == Contains(message, "API key")

\* (A variant that also gives up on a response that does not decode.)
NonRetryableOrParse(message) ==
    Contains(message, "API key") \/ Contains(message, "quota") \/ message = JSONDecodeError

\* if "API key" in str(e) or "quota" in str(e): raise
NonRetryable(message) == Contains(message, "API key") \/ Contains(message, "quota")

RECURSIVE Pow(_, _)
Pow(b, e) == IF e = 0 THEN 1 ELSE b * Pow(b, e - 1)

\* (A variant whose exponent is one too small.)
BackoffFromOne(attempt) == Pow(BACKOFF_BASE, attempt - 1)

\* wait = 2**attempt
Backoff(attempt) == Pow(BACKOFF_BASE, attempt)

\* (A variant that begins the call of the next batch with the awaited one.)
AwaitedWithNext(idx) == {idx, idx + 1}

\* The upstream calls outstanding while the loop of translate_subtitles is
\* suspended in batch idx: the awaited one.
Awaited(idx) == {idx}

\* ------------------------------------------------------ request models
\* A validated field: whether the request model accepts it, and the value the
\* handler then reads.
Accept(v) == [ok |-> TRUE, value |-> v]
Reject == [ok |-> FALSE, value |-> <<>>]

\* text: str = Field(..., min_length=1, max_length=5000) with validate_text
TextField(o) ==
    IF IsNone(o) THEN Reject
    ELSE LET v == The(o)
         IN  IF Len(v) < TEXT_MIN_LENGTH \/ Len(v) > TEXT_MAX_LENGTH THEN Reject
             ELSE IF strip(v) = <<>> THEN Reject
             ELSE Accept(strip(v))

\* A str field with a default and a validator that strips it (validate_language):
\* the default of an absent field is not validated.
StrippedField(o, default) ==
    IF IsNone(o) THEN Accept(default)
    ELSE IF strip(The(o)) = <<>> THEN Reject
    ELSE Accept(strip(The(o)))

\* A required str field with a validator that strips it (validate_target_language).
RequiredStrippedField(o) ==
    IF IsNone(o) THEN Reject
    ELSE IF strip(The(o)) = <<>> THEN Reject
    ELSE Accept(strip(The(o)))

\* A str field with a default and no validator.
PlainField(o, default) == IF IsNone(o) THEN Accept(default) ELSE Accept(The(o))

\* cues: list[SubtitleCue] = Field(..., min_length=1); SubtitleCue has no validator.
CuesField(o) ==
    IF IsNone(o) THEN Reject
    ELSE IF Len(The(o)) < CUES_MIN_LENGTH THEN Reject
    ELSE Accept(The(o))

\* batch_size: int = Field(default=25, ge=1, le=100)
BatchSizeField(o) ==
    IF IsNone(o) THEN [ok |-> TRUE, value |-> BATCH_SIZE_DEFAULT]
    ELSE IF The(o) < BATCH_SIZE_GE \/ The(o) > BATCH_SIZE_LE THEN [ok |-> FALSE, value |-> 0]
    ELSE [ok |-> TRUE, value |-> The(o)]

\* SubtitleTranslationRequest
SubtitleTranslationRequest(r) ==
    LET cues == CuesField(r.cues)
        source == PlainField(r.source_language, <<"English">>)
        target == PlainField(r.target_language, <<"Spanish">>)
        size == BatchSizeField(r.batch_size)
    IN  IF cues.ok /\ source.ok /\ target.ok /\ size.ok
        THEN Some([ cues |-> cues.value, source_language |-> source.value,
                    target_language |-> target.value, batch_size |-> size.value ])
        ELSE None

\* TranslationRequest
TranslationRequest(r) ==
    LET text == TextField(r.text)
        source == StrippedField(r.source_language, <<"English">>)
        target == StrippedField(r.target_language, <<"Telugu">>)
    IN  IF text.ok /\ source.ok /\ target.ok
        THEN Some([ text |-> text.value, source_language |-> source.value,
                    target_language |-> target.value ])
        ELSE None

\* TextTranslationRequest
TextTranslationRequest(r) ==
    LET text == TextField(r.text)
        source == PlainField(r.source_language, <<"Auto-detect">>)
        target == RequiredStrippedField(r.target_language)
    IN  IF text.ok /\ source.ok /\ target.ok
        THEN Some([ text |-> text.value, source_language |-> source.value,
                    target_language |-> target.value ])
        ELSE None

\* LanguageDetectionRequest
LanguageDetectionRequest(r) ==
    LET text == TextField(r.text)
    IN  IF text.ok THEN Some([ text |-> text.value ]) ELSE None

\* TransliterationRequest: {text(1-5000), source_script, target_script}, every
\* string trimmed and rejected when empty after trimming.
TransliterationRequest(r) ==
    LET text == TextField(r.text)
        source == RequiredStrippedField(r.source_script)
        target == RequiredStrippedField(r.target_script)
    IN  IF text.ok /\ source.ok /\ target.ok
        THEN Some([ text |-> text.value, source_script |-> source.value,
                    target_script |-> target.value ])
        ELSE None

\* ------------------------------------------------------------- the inputs
\* The cues of the subtitle requests.  No code of the pipeline reads an id or a
\* text, it only copies them, so the cue lists are those whose cues all differ
\* (every other list of the same length is an image of one of them), and one
\* list that repeats a cue.  Cue i is named i; the even ones have a blank text.
CueAt(i) ==
    [ id |-> ToString(i),
      text |-> IF i % 2 = 0 THEN <<" ">> ELSE <<"T", ToString(i)>> ]

CueLists ==
    { [ i \in 1..n |-> CueAt(i) ] : n \in 0..MaxCues } \cup { <<CueAt(1), CueAt(1)>> }

\* The strings a client sends in a text, language or script field.
RawStrings == { <<>>, <<" ">>, <<"a">>, <<" ", "a", "\n">> }
OptionalStrings == {None} \cup { Some(v) : v \in RawStrings }

RawBatchSizes ==
    { Some(b) : b \in (0..MaxBatchSize) \cup {BATCH_SIZE_LE, BATCH_SIZE_LE + 1} }

\* The language pairs of the subtitle requests.
SubtitleLanguagePairs ==
    { <<None, None>>, <<Some(<<" ">>), Some(<<"S">>)>>, <<Some(<<"E">>), Some(<<" ", "S">>)>> }

\* Every cue list with every batch size, and a few requests that leave fields
\* out or name their languages.
RawSubtitleRequests ==
    { [ cues |-> Some(q), source_language |-> None, target_language |-> None, batch_size |-> b ] :
        q \in CueLists, b \in RawBatchSizes }
    \cup
    { [ cues |-> c, source_language |-> lp[1], target_language |-> lp[2], batch_size |-> None ] :
        c \in { None, Some(<<CueAt(1)>>), Some(<<CueAt(2), CueAt(1)>>) },
        lp \in SubtitleLanguagePairs }

RawTranslationRequests ==
    [ text : OptionalStrings, source_language : OptionalStrings,
      target_language : OptionalStrings ]

RawTextTranslationRequests ==
    [ text : OptionalStrings,
      source_language : OptionalStrings \cup { Some(<<"Auto-detect">>) },
      target_language : OptionalStrings ]

RawLanguageDetectionRequests == [ text : OptionalStrings ]

RawTransliterationRequests ==
    [ text : OptionalStrings,
      source_script : OptionalStrings \cup { Some(<<"Auto-detect">>) },
      target_script : OptionalStrings ]

\* ------------------------------------------------------------------ state
VARIABLES
    endpoint,        \* the route of the request
    raw,             \* the request body as the client sent it
    req,             \* the request the handler reads (None before validation)
    pc,              \* received, handler, calling, sleeping, done
    batches,         \* translate_subtitles: the batches
    batch_idx,       \* translate_subtitles: the batch in progress (1-based)
    all_translated,  \* translate_subtitles: the results so far
    attempt,         \* _translate_batch_with_retry: the loop variable
    last_error,      \* _translate_batch_with_retry: last_error
    inflight,        \* the upstream calls begun and not yet returned
    calls,           \* the number of upstream calls begun
    prompt,          \* what the last upstream call was given
    trace,           \* the calls and sleeps of the batch in progress, in order
    thrown,          \* what its last finished attempt raised (None: nothing)
    received,        \* what the last upstream call of a batch came to, and the batch
    upstream,        \* a single-item service: what its upstream call came to
    result,          \* what the service returned to the endpoint
    response,        \* the HTTP response
    params,          \* concurrent requests: the arguments of each call of translate_subtitles
    pending,         \* concurrent requests: those whose handler has not begun
    frames,          \* concurrent requests: the locals of the calls, by frame
    heard            \* concurrent requests: what the upstream answered each, in order

vars == << endpoint, raw, req, pc, batches, batch_idx, all_translated, attempt,
           last_error, inflight, calls, prompt, trace, thrown, received, upstream,
           result, response, params, pending, frames, heard >>

\* The state of the requests that run side by side; one request alone has none.
concurrent == << params, pending, frames, heard >>

\* The state of the one request of the single-request model.
alone ==
    << endpoint, raw, req, pc, batches, batch_idx, all_translated, attempt, last_error,
       inflight, calls, prompt, trace, thrown, received, upstream, result, response >>

pipeline ==
    << batches, batch_idx, all_translated, attempt, last_error, trace, thrown, received >>

CallEvent == [ev |-> "call", wait |-> 0]
SleepEvent(w) == [ev |-> "sleep", wait |-> w]

InitSubtitle == endpoint = "subtitle" /\ raw \in RawSubtitleRequests

InitRest ==
    /\ req = None
    /\ pc = "received"
    /\ batches = <<>>
    /\ batch_idx = 0
    /\ all_translated = <<>>
    /\ attempt = 0
    /\ last_error = None
    /\ inflight = {}
    /\ calls = 0
    /\ prompt = None
    /\ trace = <<>>
    /\ thrown = None
    /\ received = None
    /\ upstream = None
    /\ result = None
    /\ response = None

\* One request alone: no other request runs beside it.
NoConcurrentRequests ==
    /\ params = <<>>
    /\ pending = {}
    /\ frames = <<>>
    /\ heard = <<>>

\* ------------------------------------------------------------ the boundary
\* The status line of a response the handler returned, and of FastAPI's answer
\* to a body its request model rejects.
OK == "200 OK"
UNPROCESSABLE == "422 Unprocessable Entity"

ValidationErrorResponse == [status |-> UNPROCESSABLE]

\* The request model of the route, applied to the body.
RequestModel(route, body) ==
    CASE route = "subtitle" -> SubtitleTranslationRequest(body)
      [] route = "translate" -> TranslationRequest(body)
      [] route = "text" -> TextTranslationRequest(body)
      [] route = "detect" -> LanguageDetectionRequest(body)
      [] route = "transliterate" -> TransliterationRequest(body)

\* FastAPI builds the request model from the body before the handler runs, and
\* answers 422 itself when the model rejects the body.
validate_request ==
    /\ UNCHANGED concurrent
    /\ pc = "received"
    /\ LET model == RequestModel(endpoint, raw)
       IN  IF IsNone(model)
           THEN /\ response' = Some(ValidationErrorResponse)
                /\ pc' = "done"
                /\ req' = None
           ELSE /\ req' = model
                /\ pc' = "handler"
                /\ UNCHANGED response
    /\ UNCHANGED << endpoint, raw, inflight, calls, prompt, upstream, result >>
    /\ UNCHANGED pipeline

\* ---------------------------------------------------- POST /translate/subtitle
\* SubtitleTranslationResponse(success=True, translated_cues=translated_cues)
SubtitleSuccess(translated_cues) ==
    [ status |-> OK, success |-> TRUE, translated_cues |-> translated_cues,
      error_message |-> None ]

\* SubtitleTranslationResponse(success=False, error_message=str(e))
SubtitleFailure(e) ==
    [ status |-> OK, success |-> FALSE, translated_cues |-> <<>>,
      error_message |-> Some(e) ]

\* (A variant that answers with the cues translated before the failure.)
SubtitleFailurePartial(translated, e) ==
    [ status |-> OK, success |-> FALSE, translated_cues |-> translated,
      error_message |-> Some(e) ]

\* What the endpoint answers when translate_subtitles raises e, whatever
\* translate_subtitles had translated by then.
SubtitleFailureAfter(translated, e) == SubtitleFailure(e)

\* The prompt of a batch: _build_prompt(texts, source_lang, target_lang).
BatchPrompt(cues, source_lang, target_lang) ==
    [ texts |-> [ i \in 1..Len(cues) |-> cues[i].text ],
      source |-> source_lang, target |-> target_lang ]

\* asyncio.to_thread(self.model.generate_content, prompt) for batch idx begins.
BeginBatchCall(bs, idx, flying, events) ==
    /\ pc' = "calling"
    /\ inflight' = flying \cup Awaited(idx)
    /\ calls' = calls + 1
    /\ prompt' = Some(BatchPrompt(bs[idx], The(req).source_language, The(req).target_language))
    /\ trace' = Append(events, CallEvent)

\* The loop of translate_subtitles reaches batch idx, or runs out of batches
\* and the endpoint answers with the translated cues.
EnterBatch(bs, idx, translated, flying) ==
    IF idx <= Len(bs)
    THEN /\ batch_idx' = idx
         /\ attempt' = 0
         /\ last_error' = None
         /\ thrown' = None
         /\ BeginBatchCall(bs, idx, flying, <<>>)
         /\ UNCHANGED << result, response >>
    ELSE /\ result' = Some(translated)
         /\ response' = Some(SubtitleSuccess(translated))
         /\ pc' = "done"
         /\ inflight' = flying
         /\ thrown' = None
         /\ UNCHANGED << batch_idx, attempt, last_error, calls, prompt, trace >>

\* The handler runs up to its first suspension: the batches are cut and the
\* first call of the first batch begins.
translate_subtitles_start ==
    /\ UNCHANGED concurrent
    /\ pc = "handler"
    /\ endpoint = "subtitle"
    /\ LET bs == Batches(The(req).cues, The(req).batch_size)
       IN  /\ batches' = bs
           /\ all_translated' = <<>>
           /\ EnterBatch(bs, 1, <<>>, inflight)
    /\ UNCHANGED << endpoint, raw, req, received, upstream >>

\* (A variant whose loop makes one attempt more before it gives up.)
AttemptFailedOneMore(e) ==
    /\ last_error' = Some(e)
    /\ thrown' = Some(e)
    /\ inflight' = inflight \ {batch_idx}
    /\ IF NonRetryable(e) \/ attempt + 1 > MAX_RETRIES
       THEN /\ response' = Some(SubtitleFailureAfter(all_translated, e))
            /\ pc' = "done"
            /\ UNCHANGED << attempt, trace >>
       ELSE /\ attempt' = attempt + 1
            /\ trace' = Append(trace, SleepEvent(Backoff(attempt + 1)))
            /\ pc' = "sleeping"
            /\ UNCHANGED response
    /\ UNCHANGED << batches, batch_idx, all_translated, calls, prompt, result >>

\* The except clause of _translate_batch_with_retry after an attempt raised e:
\* re-raise, sleep before the next attempt, or raise last_error after the loop.
AttemptFailed(e) ==
    /\ last_error' = Some(e)
    /\ thrown' = Some(e)
    /\ inflight' = inflight \ {batch_idx}
    /\ IF NonRetryable(e) \/ attempt + 1 >= MAX_RETRIES
       THEN /\ response' = Some(SubtitleFailureAfter(all_translated, e))
            /\ pc' = "done"
            /\ UNCHANGED << attempt, trace >>
       ELSE /\ attempt' = attempt + 1
            /\ trace' = Append(trace, SleepEvent(Backoff(attempt + 1)))
            /\ pc' = "sleeping"
            /\ UNCHANGED response
    /\ UNCHANGED << batches, batch_idx, all_translated, calls, prompt, result >>

\* The upstream call of the batch in progress returns or raises, and the code
\* runs up to its next suspension or to the response.
upstream_returns ==
    /\ UNCHANGED concurrent
    /\ pc = "calling"
    /\ endpoint = "subtitle"
    /\ \E outcome \in BatchOutcomesByLength[Len(batches[batch_idx])] :
         LET r == translate_batch(batches[batch_idx], outcome)
         IN  /\ received' = Some([ batch |-> batch_idx, outcome |-> outcome ])
             /\ IF r.ok
                THEN /\ all_translated' = all_translated \o r.result
                     /\ EnterBatch(batches, batch_idx + 1, all_translated \o r.result,
                                   inflight \ {batch_idx})
                     /\ UNCHANGED batches
                ELSE AttemptFailed(r.error)
    /\ UNCHANGED << endpoint, raw, req, upstream >>

\* asyncio.sleep(wait) returns and the next attempt's call begins.
sleep_returns ==
    /\ UNCHANGED concurrent
    /\ pc = "sleeping"
    /\ endpoint = "subtitle"
    /\ BeginBatchCall(batches, batch_idx, inflight, trace)
    /\ UNCHANGED << endpoint, raw, req, batches, batch_idx, all_translated, attempt,
                    last_error, thrown, received, upstream, result, response >>

\* --------------------------------------------------- the single-item services
\* What a single-item service returns to its endpoint.  payload2 is the second
\* payload of the services that have one (confidence, source script).
ServiceResult(success, payload, payload2, error_message) ==
    [ success |-> success, payload |-> payload, payload2 |-> payload2,
      error_message |-> error_message ]

\* --- TranslationService (the chat-completion provider)
\* One client.post(...) ends in one of these: httpx.TimeoutException,
\* httpx.RequestError, any other exception (response.json() on a body that is
\* no JSON), or a response with a status, a body text and, decoded, the
\* contents of its choices (None: the body has no "choices"; a content of None:
\* the choice has no message content).
ChatContents == { None, Some(<<"nam">>), Some(<<" ", "nam", "\n">>) }

ChatOutcome(kind, message, status, choices) ==
    [ kind |-> kind, message |-> message, status |-> status, choices |-> choices ]

ChatOutcomes ==
    { ChatOutcome("timeout", <<>>, 0, None),
      ChatOutcome("request_error", <<"connection refused">>, 0, None),
      ChatOutcome("exception", <<"Expecting value">>, HTTP_OK, None),
      ChatOutcome("response", <<"{error}">>, 503, None),
      ChatOutcome("response", <<"{}">>, HTTP_OK, None),
      ChatOutcome("response", <<"{choices: []}">>, HTTP_OK, Some(<<>>)) }
    \cup { ChatOutcome("response", <<"{choices: [..]}">>, HTTP_OK, Some(<<c>>)) :
             c \in ChatContents }

\* TranslationService.translate
translate(outcome) ==
    CASE outcome.kind = "timeout" ->
           ServiceResult(FALSE, None, None, Some(<<"Translation request timed out">>))
      [] outcome.kind = "request_error" ->
           ServiceResult(FALSE, None, None, Some(<<"Request error: ">> \o outcome.message))
      [] outcome.kind = "exception" ->
           ServiceResult(FALSE, None, None, Some(<<"Unexpected error: ">> \o outcome.message))
      [] outcome.kind = "response" ->
           IF outcome.status = HTTP_OK
           THEN IF ~IsNone(outcome.choices) /\ Len(The(outcome.choices)) > 0
                THEN LET content == The(outcome.choices)[1]
                     IN  ServiceResult(TRUE,
                             Some(strip(IF IsNone(content) THEN <<>> ELSE The(content))),
                             None, None)
                ELSE ServiceResult(FALSE, None, None,
                         Some(<<"No translation in response: ">> \o outcome.message))
           ELSE ServiceResult(FALSE, None, None,
                    Some(<<"API call failed with status ", ToString(outcome.status), ": ">>
                         \o outcome.message))

\* --- TextTranslationService
PlainTexts == { <<"hola">>, <<" ", "hola", "\n">>, <<>> }

GeminiTextOutcomes ==
    { [raised |-> Some(e), text |-> <<>>] : e \in TransportErrors }
        \cup { [raised |-> None, text |-> t] : t \in PlainTexts }

\* TextTranslationService.translate
translate_gemini(outcome) ==
    IF ~IsNone(outcome.raised)
    THEN ServiceResult(FALSE, None, None,
             Some(<<"Text translation failed: ">> \o The(outcome.raised)))
    ELSE ServiceResult(TRUE, Some(strip(outcome.text)), None, None)

\* --- LanguageDetectionService
Confidences == { CONFIDENCE_GE - 1, CONFIDENCE_GE, CONFIDENCE_LE, CONFIDENCE_LE + 1 }

\* The JSON values a detection response decodes to: objects with some of the
\* two keys, and values that are no object.
DetectionValues ==
    { [kind |-> "object", keys |-> {"language", "confidence"},
       language |-> <<"French">>, confidence |-> c] : c \in Confidences }
    \cup { [kind |-> "object", keys |-> k, language |-> <<"French">>, confidence |-> CONFIDENCE_LE] :
             k \in { {}, {"language"}, {"confidence"} } }
    \cup { [kind |-> k, keys |-> {}, language |-> <<>>, confidence |-> 0] :
             k \in {"array", "string"} }

GeminiDetectionOutcomes ==
    { [raised |-> Some(e), text |-> <<>>, value |-> CHOOSE v \in DetectionValues : v.kind = "string"] :
        e \in TransportErrors }
    \cup { [raised |-> None, text |-> t, value |-> v] : t \in ResponseTexts, v \in DetectionValues }

DetectionShapeError ==
    <<"Response must be a JSON object with 'language' and 'confidence' keys">>

\* LanguageDetectionService._parse_response
parse_detection_response(text, value) ==
    IF ~JsonLoadsOk(CleanResponse(text))
    THEN [ok |-> FALSE, error |-> JSONDecodeError]
    ELSE IF value.kind # "object" \/ "language" \notin value.keys \/ "confidence" \notin value.keys
         THEN [ok |-> FALSE, error |-> DetectionShapeError]
         ELSE [ok |-> TRUE, error |-> <<>>]

\* (A variant whose except clause returns no error message.)
detect_silent(outcome) ==
    IF ~IsNone(outcome.raised)
    THEN ServiceResult(FALSE, None, None, None)
    ELSE LET parsed == parse_detection_response(outcome.text, outcome.value)
         IN  IF parsed.ok
             THEN ServiceResult(TRUE, Some(outcome.value.language),
                                Some(outcome.value.confidence), None)
             ELSE ServiceResult(FALSE, None, None, None)

\* LanguageDetectionService.detect
detect(outcome) ==
    IF ~IsNone(outcome.raised)
    THEN ServiceResult(FALSE, None, None,
             Some(<<"Language detection failed: ">> \o The(outcome.raised)))
    ELSE LET parsed == parse_detection_response(outcome.text, outcome.value)
         IN  IF parsed.ok
             THEN ServiceResult(TRUE, Some(outcome.value.language),
                                Some(outcome.value.confidence), None)
             ELSE ServiceResult(FALSE, None, None,
                      Some(<<"Language detection failed: ">> \o parsed.error))

\* --- TransliterationService
\* The JSON values a transliteration response decodes to.
TransliterationValues ==
    { [kind |-> "object", keys |-> {"result", "source_script"},
       result |-> <<"namaste">>, source_script |-> sc] : sc \in { <<"Devanagari">>, <<>> } }
    \cup { [kind |-> "object", keys |-> k, result |-> <<"namaste">>, source_script |-> <<"Devanagari">>] :
             k \in { {}, {"result"}, {"source_script"} } }
    \cup { [kind |-> k, keys |-> {}, result |-> <<>>, source_script |-> <<>>] :
             k \in {"array", "string"} }

GeminiTransliterationOutcomes ==
    { [raised |-> Some(e), text |-> <<>>,
       value |-> CHOOSE v \in TransliterationValues : v.kind = "string"] : e \in TransportErrors }
    \cup { [raised |-> None, text |-> t, value |-> v] :
             t \in ResponseTexts, v \in TransliterationValues }

TransliterationShapeError ==
    <<"Response must be a JSON object with 'result' and 'source_script' keys">>

\* TransliterationService._parse_response
parse_transliteration_response(text, value) ==
    IF ~JsonLoadsOk(CleanResponse(text))
    THEN [ok |-> FALSE, error |-> JSONDecodeError]
    ELSE IF value.kind # "object" \/ "result" \notin value.keys \/ "source_script" \notin value.keys
         THEN [ok |-> FALSE, error |-> TransliterationShapeError]
         ELSE [ok |-> TRUE, error |-> <<>>]

\* TransliterationService.transliterate
transliterate(outcome) ==
    IF ~IsNone(outcome.raised)
    THEN ServiceResult(FALSE, None, None,
             Some(<<"Transliteration failed: ">> \o The(outcome.raised)))
    ELSE LET parsed == parse_transliteration_response(outcome.text, outcome.value)
         IN  IF parsed.ok
             THEN ServiceResult(TRUE, Some(outcome.value.result),
                                Some(outcome.value.source_script), None)
             ELSE ServiceResult(FALSE, None, None,
                      Some(<<"Transliteration failed: ">> \o parsed.error))

\* ------------------------------------------- the single-item endpoints
\* POST /translate: TranslationResponse(...)
translate_text(request, r) ==
    [ status |-> OK, success |-> r.success, translated_text |-> r.payload,
      source_language |-> request.source_language,
      target_language |-> request.target_language,
      original_text |-> request.text, error_message |-> r.error_message ]

\* POST /translate/text: TextTranslationResponse(...)
translate_text_gemini(request, r) ==
    [ status |-> OK, success |-> r.success, translated_text |-> r.payload,
      source_language |-> request.source_language,
      target_language |-> request.target_language,
      error_message |-> r.error_message ]

\* (A variant with no bounds on the field.)
ConfidenceFieldUnbounded(o) == TRUE

\* confidence: Optional[float] = Field(None, ge=0, le=1)
ConfidenceFieldOk(o) ==
    IsNone(o) \/ (The(o) >= CONFIDENCE_GE /\ The(o) <= CONFIDENCE_LE)

ConfidenceValidationError ==
    <<"1 validation error for LanguageDetectionResponse", "\n", "confidence">>

\* POST /detect/language: LanguageDetectionResponse(...), and the except clause
\* that answers when building the response raises.
detect_language(request, r) ==
    IF ConfidenceFieldOk(r.payload2)
    THEN [ status |-> OK, success |-> r.success, detected_language |-> r.payload,
           confidence |-> r.payload2, error_message |-> r.error_message ]
    ELSE [ status |-> OK, success |-> FALSE, detected_language |-> None,
           confidence |-> None, error_message |-> Some(ConfidenceValidationError) ]

\* POST /transliterate: TransliterationResponse(...), where
\* source_script=source_script or request.source_script
transliterate_text(request, r) ==
    [ status |-> OK, success |-> r.success, transliterated_text |-> r.payload,
      source_script |-> IF IsNone(r.payload2) \/ The(r.payload2) = <<>>
                        THEN request.source_script
                        ELSE The(r.payload2),
      target_script |-> request.target_script,
      error_message |-> r.error_message ]

\* The outcomes of the one upstream call of a single-item route.
SingleOutcomes(route) ==
    CASE route = "translate" -> ChatOutcomes
      [] route = "text" -> GeminiTextOutcomes
      [] route = "detect" -> GeminiDetectionOutcomes
      [] route = "transliterate" -> GeminiTransliterationOutcomes

\* The service of a single-item route, on the outcome of its upstream call.
SingleService(route, outcome) ==
    CASE route = "translate" -> translate(outcome)
      [] route = "text" -> translate_gemini(outcome)
      [] route = "detect" -> detect(outcome)
      [] route = "transliterate" -> transliterate(outcome)

\* The endpoint of a single-item route, on what its service returned.
SingleEndpoint(route, request, r) ==
    CASE route = "translate" -> translate_text(request, r)
      [] route = "text" -> translate_text_gemini(request, r)
      [] route = "detect" -> detect_language(request, r)
      [] route = "transliterate" -> transliterate_text(request, r)

SingleRoutes == {"translate", "text", "detect", "transliterate"}

\* The handler of a single-item route runs up to its one suspension: the
\* service builds its prompt and its upstream call begins.
single_call_begins ==
    /\ UNCHANGED concurrent
    /\ pc = "handler"
    /\ endpoint \in SingleRoutes
    /\ pc' = "calling"
    /\ inflight' = inflight \cup {0}
    /\ calls' = calls + 1
    /\ prompt' = Some(The(req))
    /\ UNCHANGED << endpoint, raw, req, upstream, result, response >>
    /\ UNCHANGED pipeline

\* The upstream call returns or raises; the service returns to the endpoint,
\* which answers.
single_call_returns ==
    /\ UNCHANGED concurrent
    /\ pc = "calling"
    /\ endpoint \in SingleRoutes
    /\ \E outcome \in SingleOutcomes(endpoint) :
         /\ upstream' = Some(outcome)
         /\ result' = Some(SingleService(endpoint, outcome))
         /\ response' = Some(SingleEndpoint(endpoint, The(req), SingleService(endpoint, outcome)))
    /\ inflight' = inflight \ {0}
    /\ pc' = "done"
    /\ UNCHANGED << endpoint, raw, req, calls, prompt >>
    /\ UNCHANGED pipeline

InitTranslate == endpoint = "translate" /\ raw \in RawTranslationRequests
InitText == endpoint = "text" /\ raw \in RawTextTranslationRequests
InitDetect == endpoint = "detect" /\ raw \in RawLanguageDetectionRequests
InitTransliterate == endpoint = "transliterate" /\ raw \in RawTransliterationRequests

Init ==
    /\ InitSubtitle \/ InitTranslate \/ InitText \/ InitDetect \/ InitTransliterate
    /\ InitRest
    /\ NoConcurrentRequests

Next ==
    \/ validate_request
    \/ translate_subtitles_start
    \/ upstream_returns
    \/ sleep_returns
    \/ single_call_begins
    \/ single_call_returns

Spec == Init /\ [][Next]_vars

\* The server runs a request to its end: FastAPI validates the body and calls
\* the handler, the event loop resumes the handler when a sleep is over, and
\* every upstream call returns or raises.
FairSpec == Spec /\ WF_vars(Next)

\* ------------------------------------------- subtitle requests side by side
\* The server runs every request as a task of one asyncio event loop.  The
\* services are module-level objects made once (services.py, the last lines)
\* and translate_subtitles keeps nothing on self: all it writes are the locals
\* of its calls.  A step of a task is the code between two awaits, and the
\* loop runs one step at a time.

\* The most cues a request has when two run side by side.
MaxConcurrentCues == 2

\* The requests that run side by side.
Requests == {"A", "B"}

\* (A variant that keeps the locals on the one service object.)
SharedLocals(r) == "A"

\* The frame that holds the locals of request r's call of translate_subtitles
\* and of its calls of _translate_batch_with_retry: each call has its own.
Locals(r) == r

\* (A variant whose backoff is a time.sleep, which keeps the loop.)
LoopHeldWhileSleeping == {"sleeping"}

\* The waits during which a task keeps the event loop to itself: none, the
\* sleep and the upstream call are both awaited.
LoopHeldAt == {}

\* The loop can run a step of request r: no other task keeps it.
LoopFree(r) ==
    \A q \in Requests \ {r} :
       q \in pending \/ frames[Locals(q)].pc \notin LoopHeldAt

\* The cues of request r: n cues, its own.
ConcurrentCues(r, n) ==
    [ i \in 1..n |-> [ id |-> r \o ToString(i), text |-> <<r, ToString(i)>> ] ]

\* What the upstream does to a call of these requests: a retryable error, a
\* quota error, or an array with a translation for every cue of the batch.
ConcurrentOutcomes(n) ==
    { [raised |-> Some(<<"503 The service is currently unavailable">>),
       text |-> <<>>, value |-> NullValue],
      [raised |-> Some(<<"429 Resource exhausted, check ", "quota">>),
       text |-> <<>>, value |-> NullValue],
      [raised |-> None, text |-> <<JSONDOC>>,
       value |-> [kind |-> "array", items |-> [ i \in 1..n |-> <<"x">> ]]] }

\* A frame no call uses.
FreeFrame ==
    [ cues |-> <<>>, batch_size |-> 0, pc |-> "free", batches |-> <<>>, batch_idx |-> 0,
      all_translated |-> <<>>, attempt |-> 0, last_error |-> None, response |-> None ]

\* The frame of a call of translate_subtitles(cues, ..., batch_size).
NewFrame(p) ==
    [ FreeFrame EXCEPT !.cues = p.cues, !.batch_size = p.batch_size, !.pc = "handler" ]

\* The loop of translate_subtitles reaches batch idx and calls the upstream,
\* or runs out of batches and the endpoint answers.
FrameEnterBatch(f, idx) ==
    IF idx <= Len(f.batches)
    THEN [ f EXCEPT !.batch_idx = idx, !.attempt = 0, !.last_error = None, !.pc = "calling" ]
    ELSE [ f EXCEPT !.pc = "done", !.response = Some(SubtitleSuccess(f.all_translated)) ]

\* translate_subtitles up to its first await.
FrameStart(f) ==
    FrameEnterBatch([ f EXCEPT !.batches = Batches(f.cues, f.batch_size),
                               !.all_translated = <<>> ], 1)

\* The code that runs when the upstream call of the frame's batch ends in
\* outcome, up to the next await or to the response.
FrameReturn(f, outcome) ==
    LET r == translate_batch(f.batches[f.batch_idx], outcome)
    IN  IF r.ok
        THEN FrameEnterBatch([ f EXCEPT !.all_translated = @ \o r.result ], f.batch_idx + 1)
        ELSE IF NonRetryable(r.error) \/ f.attempt + 1 >= MAX_RETRIES
             THEN [ f EXCEPT !.last_error = Some(r.error), !.pc = "done",
                             !.response = Some(SubtitleFailureAfter(f.all_translated, r.error)) ]
             ELSE [ f EXCEPT !.last_error = Some(r.error), !.attempt = @ + 1,
                             !.pc = "sleeping" ]

\* asyncio.sleep(wait) returns: the next attempt calls the upstream.
FrameWake(f) == [ f EXCEPT !.pc = "calling" ]

\* The handler of request r runs up to its first await.
task_starts(r) ==
    /\ r \in pending
    /\ LoopFree(r)
    /\ pending' = pending \ {r}
    /\ frames' = [ frames EXCEPT ![Locals(r)] = FrameStart(NewFrame(params[r])) ]
    /\ UNCHANGED << params, heard >>
    /\ UNCHANGED alone

\* The upstream call of request r returns or raises, and r runs up to its
\* next await or to its response.
task_upstream_returns(r) ==
    /\ r \notin pending
    /\ LoopFree(r)
    /\ frames[Locals(r)].pc = "calling"
    /\ LET f == frames[Locals(r)]
       IN  \E outcome \in ConcurrentOutcomes(Len(f.batches[f.batch_idx])) :
              /\ heard' = [ heard EXCEPT ![r] = Append(@, outcome) ]
              /\ frames' = [ frames EXCEPT ![Locals(r)] = FrameReturn(f, outcome) ]
    /\ UNCHANGED << params, pending >>
    /\ UNCHANGED alone

\* The backoff sleep of request r returns.
task_sleep_returns(r) ==
    /\ r \notin pending
    /\ LoopFree(r)
    /\ frames[Locals(r)].pc = "sleeping"
    /\ frames' = [ frames EXCEPT ![Locals(r)] = FrameWake(@) ]
    /\ UNCHANGED << params, pending, heard >>
    /\ UNCHANGED alone

\* No request of the single-request model is in progress.
NoSingleRequest == endpoint = "none" /\ raw = None /\ InitRest

\* The arguments of the calls: each request has its own cues, one per batch.
ConcurrentParams ==
    { p \in [ Requests -> [ cues : UNION { { ConcurrentCues(r, n) : n \in 1..MaxConcurrentCues } :
                                              r \in Requests },
                             batch_size : {BATCH_SIZE_GE} ] ] :
        \A r \in Requests : p[r].cues = ConcurrentCues(r, Len(p[r].cues)) }

ConcurrentInit ==
    /\ NoSingleRequest
    /\ params \in ConcurrentParams
    /\ pending = Requests
    /\ frames = [ r \in Requests |-> FreeFrame ]
    /\ heard = [ r \in Requests |-> <<>> ]

ConcurrentNext ==
    \/ \E r \in Requests : task_starts(r)
    \/ \E r \in Requests : task_upstream_returns(r)
    \/ \E r \in Requests : task_sleep_returns(r)

ConcurrentSpec == ConcurrentInit /\ [][ConcurrentNext]_vars

\* ================================================================ claims
IsPrefix(s, t) == Len(s) <= Len(t) /\ s = SubSeq(t, 1, Len(s))

RECURSIVE LenBefore(_)
\* The number of cues in the batches before batch k.
LenBefore(k) == IF k <= 1 THEN 0 ELSE LenBefore(k - 1) + Len(batches[k - 1])

Subtitle == endpoint = "subtitle"
Done == pc = "done"
\* A message with one of the two markers of the retry loop.
HasMarker(message) == Contains(message, "API key") \/ Contains(message, "quota")
\* The calls and sleeps of a batch whose three attempts all fail.
FullRetryTrace ==
    << CallEvent, SleepEvent(2), CallEvent, SleepEvent(4), CallEvent >>
\* The last upstream call of a batch returned a text that decodes to an array.
ReceivedArray ==
    /\ ~IsNone(received)
    /\ IsNone(The(received).outcome.raised)
    /\ JsonLoadsOk(CleanResponse(The(received).outcome.text))
    /\ The(received).outcome.value.kind = "array"
\* The last upstream call of a batch returned a text that does not decode.
ReceivedNoJson ==
    /\ ~IsNone(received)
    /\ IsNone(The(received).outcome.raised)
    /\ ~JsonLoadsOk(CleanResponse(The(received).outcome.text))

\* C1: whenever translate_subtitles returns, the list it returns (and the
\* response carries) has one entry per cue of the request, and entry j has the
\* id and the text of cue j of the request, whatever the upstream arrays were.
C1_SameLengthSameOrder ==
    (Subtitle /\ ~IsNone(result)) =>
        LET cues == The(raw.cues)
            out == The(result)
        IN  /\ Len(out) = Len(cues)
            /\ \A j \in 1..Len(cues) :
                 out[j].id = cues[j].id /\ out[j].text = cues[j].text
            /\ Done /\ The(response).success /\ The(response).translated_cues = out

\* A request of three cues in several batches has returned, one cue translated
\* and another fallen back to its own text (its array was short).
C1_Witness ==
    /\ Subtitle /\ ~IsNone(result)
    /\ Len(The(result)) = 3 /\ Len(batches) >= 2
    /\ \E j, k \in 1..3 :
         /\ The(result)[j].translated_text = The(result)[j].text
         /\ The(result)[k].translated_text \in Translations

C3_ThreeAttemptsTwoSleeps ==
    Subtitle =>
        /\ IsPrefix(trace, FullRetryTrace)
        /\ (Done /\ ~IsNone(thrown) /\ ~HasMarker(The(thrown))) =>
              /\ MAX_RETRIES = 3
              /\ trace = FullRetryTrace
              /\ last_error = thrown
              /\ ~The(response).success
              /\ The(response).error_message = thrown

\* The third attempt of a batch has failed with a retryable error.
C3_Witness ==
    /\ Subtitle /\ Done /\ ~IsNone(thrown) /\ ~HasMarker(The(thrown))
    /\ trace = FullRetryTrace

\* C4: when an attempt raises an error with an auth or quota marker, the loop
\* stops there: the request is answered with that error, nothing is in flight,
\* the last thing the batch did is the call that raised (no sleep follows),
\* and the batch made as many calls as the attempt's number; one call when it
\* is the first attempt.
C4_MarkerStopsRetries ==
    (Subtitle /\ ~IsNone(thrown) /\ HasMarker(The(thrown))) =>
        /\ Done
        /\ inflight = {}
        /\ ~The(response).success
        /\ The(response).error_message = thrown
        /\ trace = SubSeq(FullRetryTrace, 1, 2 * attempt + 1)
        /\ attempt \in 0..2
        /\ (attempt = 0 => trace = <<CallEvent>>)

\* The second attempt of a batch raised a quota error.
C4_Witness ==
    /\ Subtitle /\ ~IsNone(thrown) /\ Contains(The(thrown), "quota")
    /\ attempt = 1

C6_OneBatchAtATime ==
    Subtitle =>
        /\ Cardinality(inflight) <= 1
        /\ (pc = "calling" => inflight = {batch_idx})
        /\ (pc # "calling" => inflight = {})
        /\ (pc \in {"calling", "sleeping"} =>
              /\ batch_idx \in 1..Len(batches)
              /\ Len(all_translated) = LenBefore(batch_idx)
              /\ \A i \in 1..Len(all_translated) :
                   all_translated[i].id = The(req).cues[i].id)

\* The second batch sleeps before a retry, the first batch translated.
C6_Witness ==
    /\ Subtitle /\ pc = "sleeping" /\ batch_idx = 2
    /\ all_translated # <<>>

\* C7: a response that is no JSON once cleaned fails its attempt with the
\* decoding error, and that error is retried as a transport error is: after
\* any error without a marker the batch sleeps, or calls again after the
\* sleep, or, after the third attempt, the request is answered with success
\* false and that error.
C7_ParseErrorRetriedAlike ==
    Subtitle =>
        /\ ReceivedNoJson => thrown = Some(JSONDecodeError)
        /\ \A e \in {JSONDecodeError} \cup { t \in TransportErrors : ~HasMarker(t) } :
             thrown = Some(e) =>
                /\ IsPrefix(trace, FullRetryTrace)
                /\ \/ pc = "sleeping" /\ attempt \in 1..2
                         /\ trace = SubSeq(FullRetryTrace, 1, 2 * attempt)
                   \/ pc = "calling" /\ attempt \in 1..2
                         /\ trace = SubSeq(FullRetryTrace, 1, 2 * attempt + 1)
                   \/ Done /\ attempt = 2 /\ trace = FullRetryTrace
                         /\ ~The(response).success
                         /\ The(response).error_message = Some(e)

\* The third attempt of a batch returned a text that is no JSON.
C7_Witness ==
    /\ Subtitle /\ Done /\ ReceivedNoJson /\ trace = FullRetryTrace
    /\ ~The(response).success

\* The detection upstream returned a text that decodes to an object with both
\* keys.
DetectionParsed ==
    /\ endpoint = "detect" /\ Done /\ ~IsNone(upstream)
    /\ IsNone(The(upstream).raised)
    /\ JsonLoadsOk(CleanResponse(The(upstream).text))
    /\ The(upstream).value.kind = "object"
    /\ {"language", "confidence"} \subseteq The(upstream).value.keys

ConfidenceOutOfRange ==
    The(upstream).value.confidence < 0 \/ The(upstream).value.confidence > 1

\* C8, as claimed: a confidence outside [0,1] passes through, the response has
\* success true, the detected language and the upstream's confidence.
C8_OutOfRangePassesThrough ==
    (DetectionParsed /\ ConfidenceOutOfRange) =>
        /\ The(response).success
        /\ The(response).detected_language = Some(The(upstream).value.language)
        /\ The(response).confidence = Some(The(upstream).value.confidence)

\* C8, amended: a confidence outside [0,1] is rejected when the response is
\* built: the answer is 200 with success false, an error message, and neither
\* language nor confidence; a confidence within [0,1] is answered with success
\* true, the language and that confidence, unchanged.
C8_OutOfRangeRejected ==
    DetectionParsed =>
        IF ConfidenceOutOfRange
        THEN /\ The(response).status = OK
             /\ ~The(response).success
             /\ The(response).detected_language = None
             /\ The(response).confidence = None
             /\ ~IsNone(The(response).error_message)
        ELSE /\ The(response).success
             /\ The(response).detected_language = Some(The(upstream).value.language)
             /\ The(response).confidence = Some(The(upstream).value.confidence)
             /\ The(response).error_message = None

\* The upstream answered a detection with a confidence of 2.
C8_Witness == DetectionParsed /\ The(upstream).value.confidence = 2

\* The text and language fields the client gave in its body.
GivenTextAndLanguageFields ==
    LET named == IF endpoint \in {"detect", "transliterate"}
                 THEN { raw.text }
                 ELSE IF Subtitle
                      THEN { raw.source_language, raw.target_language }
                      ELSE { raw.text, raw.source_language, raw.target_language }
        cueTexts == IF Subtitle /\ ~IsNone(raw.cues)
                    THEN { Some(The(raw.cues)[i].text) : i \in 1..Len(The(raw.cues)) }
                    ELSE {}
    IN  { o \in named \cup cueTexts : ~IsNone(o) }

\* Every text and language field the client gave is, in the request the
\* handler reads, its trimmed value.
FieldsTrimmed ==
    LET trimmed(o, v) == IsNone(o) \/ v = strip(The(o))
    IN  IF Subtitle
        THEN /\ \A i \in 1..Len(The(req).cues) :
                  The(req).cues[i].text = strip(The(raw.cues)[i].text)
             /\ trimmed(raw.source_language, The(req).source_language)
             /\ trimmed(raw.target_language, The(req).target_language)
        ELSE /\ trimmed(raw.text, The(req).text)
             /\ endpoint \in {"translate", "text"} =>
                  /\ trimmed(raw.source_language, The(req).source_language)
                  /\ trimmed(raw.target_language, The(req).target_language)

\* C9, as claimed: on every endpoint a request with a text or language field
\* that is empty once trimmed is answered with a validation error and makes no
\* upstream call, and the fields of a request that reaches its service are
\* trimmed; the cue texts and the languages of /translate/subtitle and the
\* source_language of /translate/text among them.
C9_TrimmedOrRejected ==
    /\ (\E o \in GivenTextAndLanguageFields : strip(The(o)) = <<>>) =>
          /\ calls = 0
          /\ Done => The(response).status = UNPROCESSABLE
    /\ calls > 0 => FieldsTrimmed

\* An upstream call of a single-item route that raised, or whose response is
\* not what the service reads its payload from.
SingleCallFailed(route, o) ==
    CASE route = "translate" ->
           \/ o.kind # "response"
           \/ o.status # 200
           \/ IsNone(o.choices)
           \/ The(o.choices) = <<>>
      [] route = "text" -> ~IsNone(o.raised)
      [] route = "detect" ->
           \/ ~IsNone(o.raised)
           \/ ~JsonLoadsOk(CleanResponse(o.text))
           \/ o.value.kind # "object"
           \/ ~({"language", "confidence"} \subseteq o.value.keys)
      [] route = "transliterate" ->
           \/ ~IsNone(o.raised)
           \/ ~JsonLoadsOk(CleanResponse(o.text))
           \/ o.value.kind # "object"
           \/ ~({"result", "source_script"} \subseteq o.value.keys)

\* C10: a single-item service makes one upstream call per request and never
\* retries (no second call, no sleep); when that call fails it returns success
\* false with an error message, not empty, and no payload; when it succeeds it
\* returns success true with the payload and no error message.
C10_OneCallNoRetry ==
    (endpoint \in SingleRoutes) =>
        /\ calls <= 1
        /\ trace = <<>>
        /\ (pc = "calling" \/ ~IsNone(result)) => calls = 1
        /\ (Done /\ ~IsNone(req)) => ~IsNone(result)
        /\ ~IsNone(result) =>
              LET r == The(result)
              IN  /\ Done /\ inflight = {}
                  /\ r.success = ~SingleCallFailed(endpoint, The(upstream))
                  /\ r.success =>
                        /\ ~IsNone(r.payload)
                        /\ IsNone(r.error_message)
                        /\ (endpoint \in {"detect", "transliterate"}) => ~IsNone(r.payload2)
                  /\ ~r.success =>
                        /\ IsNone(r.payload) /\ IsNone(r.payload2)
                        /\ ~IsNone(r.error_message)
                        /\ The(r.error_message) # <<>>

\* A detection whose one upstream call raised has returned.
C10_Witness ==
    /\ endpoint = "detect" /\ ~IsNone(result) /\ ~The(result).success
    /\ ~IsNone(The(upstream).raised)
    /\ calls = 1

\* The batches of the request have been cut.
BatchesCut == Subtitle /\ ~IsNone(req) /\ pc \in {"calling", "sleeping", "done"}

RECURSIVE Concat(_)
\* The batches of bs one after the other.
Concat(bs) == IF bs = <<>> THEN <<>> ELSE Head(bs) \o Concat(Tail(bs))

CeilDiv(n, b) == (n + b - 1) \div b

\* C11: for a list of n >= 1 cues and a batch_size b in 1..100 the batches are
\* ceil(n/b) slices of the list, batch k the cues from (k-1)*b+1 to k*b (to n
\* for the last), so they are contiguous and do not overlap, their
\* concatenation in order is the list, every batch has 1 to b cues and only
\* the last may have fewer than b.
C11_BatchesPartition ==
    BatchesCut =>
        LET cues == The(req).cues
            n == Len(cues)
            b == The(req).batch_size
        IN  /\ n >= 1 /\ b \in BATCH_SIZE_GE..BATCH_SIZE_LE
            /\ Len(batches) = CeilDiv(n, b)
            /\ Concat(batches) = cues
            /\ \A k \in 1..Len(batches) :
                 /\ batches[k] = SubSeq(cues, (k - 1) * b + 1, Min(k * b, n))
                 /\ Len(batches[k]) \in 1..b
                 /\ (k < Len(batches) => Len(batches[k]) = b)

\* Three cues were cut with batch_size 2: a full batch and a shorter last one.
C11_Witness ==
    /\ BatchesCut /\ The(req).batch_size = 2
    /\ Len(batches) = 2 /\ Len(batches[1]) = 2 /\ Len(batches[2]) = 1

\* The last upstream call of a batch returned a JSON value that is no array.
ReceivedNoArray ==
    /\ Subtitle /\ ~IsNone(received)
    /\ IsNone(The(received).outcome.raised)
    /\ JsonLoadsOk(CleanResponse(The(received).outcome.text))
    /\ The(received).outcome.value.kind # "array"

\* The one upstream call of the route returned a JSON value that is not an
\* object with the two keys.
ReceivedWrongObject(route, key1, key2) ==
    /\ endpoint = route /\ ~IsNone(upstream)
    /\ IsNone(The(upstream).raised)
    /\ JsonLoadsOk(CleanResponse(The(upstream).text))
    /\ \/ The(upstream).value.kind # "object"
       \/ ~({key1, key2} \subseteq The(upstream).value.keys)

\* C12: a response that is JSON of the wrong shape never gives a successful
\* result.  A batch response that is an object, a string, a number or null
\* fails its attempt with an error, and nothing is added to the translated
\* cues; a detection response that is no object or lacks language or
\* confidence, and a transliteration response that is no object or lacks
\* result or source_script, make the service return success false with no
\* payload, and the response says success false with no payload.
C12_WrongShapeFails ==
    /\ ReceivedNoArray =>
          /\ thrown = Some(NotAnArrayError)
          /\ batch_idx = The(received).batch
          /\ Len(all_translated) = LenBefore(batch_idx)
          /\ IsNone(result)
          /\ Done => ~The(response).success /\ The(response).translated_cues = <<>>
    /\ ReceivedWrongObject("detect", "language", "confidence") =>
          /\ ~The(result).success
          /\ IsNone(The(result).payload) /\ IsNone(The(result).payload2)
          /\ ~The(response).success
          /\ IsNone(The(response).detected_language)
          /\ IsNone(The(response).confidence)
    /\ ReceivedWrongObject("transliterate", "result", "source_script") =>
          /\ ~The(result).success
          /\ IsNone(The(result).payload) /\ IsNone(The(result).payload2)
          /\ ~The(response).success
          /\ IsNone(The(response).transliterated_text)

\* The three attempts of a batch got a JSON value that is no array, the last
\* one an object, and the request has failed.
C12_Witness ==
    /\ ReceivedNoArray /\ Done
    /\ The(received).outcome.value.kind = "object"
    /\ trace = FullRetryTrace

\* The opening fences: the fence, then one of the tags or none, then a newline
\* or none; and the closing fences: a newline or none, then the fence.
OpeningFences(tags) ==
    { <<FENCE>> \o tag \o nl :
        tag \in {<<>>} \cup { <<t>> : t \in tags }, nl \in { <<>>, <<"\n">> } }

ClosingFences == { nl \o <<FENCE>> : nl \in { <<>>, <<"\n">> } }

\* The texts that wrap body in one opening and one closing fence.
Fenced(tags, body) ==
    { o \o body \o c : o \in OpeningFences(tags), c \in ClosingFences }

\* The last upstream call of a batch returned, whitespace around it aside,
\* one JSON document in one pair of fences with one of the tags or none.
ReceivedFenced(tags) ==
    /\ Subtitle /\ ~IsNone(received)
    /\ IsNone(The(received).outcome.raised)
    /\ strip(The(received).outcome.text) \in Fenced(tags, <<JSONDOC>>)

\* The tags of the opening fence the claim speaks of (any language tag), and
\* the one tag the regex of the parser names.
AnyTags == {"json", "python"}
JsonTag == {"json"}

\* Every text that wraps a JSON document in one pair of fences, with the tag
\* json or none, is cleaned to the document alone.
JsonFenceCleaned ==
    \A t \in Fenced(JsonTag, <<JSONDOC>>) : CleanResponse(t) = CleanResponse(<<JSONDOC>>)

\* A fenced text in another pair of fences is cleaned to the fenced text,
\* which is no JSON.
InnerFenceLeft ==
    \A t \in Fenced(JsonTag, <<JSONDOC>>) :
       \A u \in Fenced(JsonTag, t) :
          CleanResponse(u) = t /\ ~JsonLoadsOk(CleanResponse(u))

\* When a batch receives a JSON document in one pair of fences (tags), the
\* attempt does what it does on the bare document with the same value: it
\* raises no decoding error, and with an array it succeeds and the batch's
\* cues are added.
OnePairStripped(tags) ==
    ReceivedFenced(tags) =>
        LET k == The(received).batch
            outcome == The(received).outcome
            bare == [ outcome EXCEPT !.text = <<JSONDOC>> ]
        IN  /\ CleanResponse(outcome.text) = CleanResponse(bare.text)
            /\ translate_batch(batches[k], outcome) = translate_batch(batches[k], bare)
            /\ thrown # Some(JSONDecodeError)
            /\ outcome.value.kind = "array" =>
                  /\ thrown = None
                  /\ Len(all_translated) = LenBefore(k) + Len(batches[k])

\* The last upstream call of a batch returned a fenced JSON document in a
\* second pair of fences.
ReceivedTwiceFenced ==
    /\ Subtitle /\ ~IsNone(received)
    /\ IsNone(The(received).outcome.raised)
    /\ \E t \in Fenced(JsonTag, <<JSONDOC>>) :
          strip(The(received).outcome.text) \in Fenced(JsonTag, t)

\* A second pair of fences, inside the first, is not stripped: a batch that
\* receives a document in two pairs of fences is left with the document in
\* the inner pair, and fails its attempt with the decoding error.
InnerPairKept ==
    ReceivedTwiceFenced =>
        /\ CleanResponse(The(received).outcome.text)
               \in Fenced(JsonTag, <<JSONDOC>>)
        /\ thrown = Some(JSONDecodeError)
        /\ InnerFenceLeft

Awake(f) == IF f.pc = "sleeping" THEN FrameWake(f) ELSE f

RECURSIVE Replay(_, _)
\* The frame of a call that has been given these outcomes, one after the
\* other, with nothing else running.
Replay(f, outcomes) ==
    IF outcomes = <<>>
    THEN f
    ELSE Replay(FrameReturn(Awake(f), Head(outcomes)), Tail(outcomes))

\* The frame of request r had it run alone and been answered what it was.
RunAlone(r) == Replay(FrameStart(NewFrame(params[r])), heard[r])

OwnArrayByBatchIndex ==
    (Subtitle /\ ReceivedArray) =>
        LET k == The(received).batch
            items == The(received).outcome.value.items
            batch == batches[k]
        IN  /\ Len(all_translated) = LenBefore(k) + Len(batch)
            /\ \A i \in 1..Len(batch) :
                 LET out == all_translated[LenBefore(k) + i]
                 IN  /\ out.id = batch[i].id
                     /\ i <= Len(items) => out.translated_text = items[i]
            /\ (Done /\ ~IsNone(result)) =>
                  /\ k = Len(batches)
                  /\ The(result) = all_translated
                  /\ The(response).translated_cues = all_translated

\* C15: in a request that succeeds, cue i of batch k is translated to entry i
\* of the array batch k itself received (the index counts within the batch),
\* when the array has an entry i; what the array has past the batch's length
\* is dropped, it neither appears in the results nor takes the place of a cue
\* of a later batch.  (When the array arrives the batch's cues are appended at
\* the batch's place, and no later step changes what is already in the
\* results.)
C15_IndexWithinBatch ==
    /\ []OwnArrayByBatchIndex
    /\ [][IsPrefix(all_translated, all_translated')]_vars

\* A request of two batches has succeeded, its second batch having received
\* an array longer than the batch, and after its first batch was translated.
C15_Witness ==
    /\ Subtitle /\ ReceivedArray /\ Done /\ ~IsNone(result)
    /\ The(received).batch = 2
    /\ Len(The(received).outcome.value.items) > Len(batches[2])
    /\ The(result)[1].translated_text \in Translations
    /\ The(result)[LenBefore(2) + 1].translated_text = The(received).outcome.value.items[1]

\* The upstream calls of the batch in progress.
CallsOfBatch == Cardinality({ i \in DOMAIN trace : trace[i] = CallEvent })

\* The calls of a request are at most three for each batch begun; the batch
\* in progress has made at most three; and a request that is answered has no
\* call in flight and takes no further step.
CallsWithinBudget ==
    Subtitle =>
        /\ CallsOfBatch <= 3
        /\ calls <= 3 * batch_idx
        /\ batch_idx <= Len(batches)
        /\ (Done /\ ~IsNone(req)) =>
              /\ inflight = {}
              /\ ~ENABLED Next
              /\ ~IsNone(thrown) => ~The(response).success /\ calls <= 3 * batch_idx
              /\ IsNone(thrown) => The(response).success /\ calls <= 3 * Len(batches)

\* A step that begins an upstream call is the first call of the first batch,
\* or follows the success of a batch and is the first call of the next one,
\* or follows a backoff sleep after a failed attempt, retryable and not the
\* third, of the same batch; a failed batch is followed by no call.
CallBegins ==
    (Subtitle /\ calls' # calls) =>
        /\ calls' = calls + 1
        /\ pc' = "calling"
        /\ \/ pc = "handler" /\ batch_idx' = 1
           \/ /\ pc = "calling"
              /\ batch_idx' = batch_idx + 1
              /\ IsNone(thrown') /\ attempt' = 0
              /\ Len(all_translated') = Len(all_translated) + Len(batches[batch_idx])
           \/ /\ pc = "sleeping"
              /\ batch_idx' = batch_idx
              /\ ~IsNone(thrown) /\ ~HasMarker(The(thrown))
              /\ attempt \in 1..2

\* C16: when every upstream call returns or fails, every subtitle request
\* comes to a response; it makes at most three calls for each batch up to
\* the first that fails outright; a batch is not called again after an
\* attempt of it succeeded, and no batch is called after one failed outright.
C16_TerminatesWithinBudget ==
    /\ Subtitle => <>(Done /\ ~IsNone(response))
    /\ []CallsWithinBudget
    /\ [][CallBegins]_vars

\* A request of two batches has failed in its second batch after six calls:
\* each batch made three, the first succeeding at its third.
C16_Witness ==
    /\ Subtitle /\ Done /\ ~IsNone(thrown)
    /\ Len(batches) = 2 /\ batch_idx = 2
    /\ calls = 6

====
